---- MODULE Spec2Model ----
(***************************************************************************)
(* Model of scripts/memory-index.py: the persistent memory index.  One     *)
(* process serves commands (status, upsert, search, stats) against one     *)
(* SQLite store; the process keeps MODEL_CACHE and INDEX_CACHE in memory.  *)
(*                                                                         *)
(* Representation                                                          *)
(*   - a missing or empty string field of a payload is "" (the code tests  *)
(*     them with `not x` only); a missing number is <<>>, a given one <<n>> *)
(*   - a Python dict of metadata is a set of <<key, value>> pairs          *)
(*   - floats are small integers; a float32 blob is the sequence of the    *)
(*     little-endian IEEE-754 bytes of its components                      *)
(*   - SHA-1 is taken to be collision free: a digest is the byte string it *)
(*     was fed                                                             *)
(*                                                                         *)
(* Spec is the process serving commands; SpecPure calls compute_hash and   *)
(* validate_batch_size on their own, over inputs the commands of Spec do   *)
(* not carry, and load_index_cache on tables whose metadata column holds   *)
(* arbitrary text.  SpecProcs runs two such processes against one store,   *)
(* one SQL statement at a time.  SpecStores is one process serving two     *)
(* stores.                                                                 *)
(***************************************************************************)
EXTENDS Integers, Sequences, FiniteSets, TLC

\* ---------------------------------------------------------------- bounds
\* largest value the wall clock takes
MaxClock == 2
\* longest documents list of an upsert payload
MaxDocs == 2

\* ------------------------------------------------------------- constants
DEFAULT_LIMIT == 8
DEFAULT_BATCH_SIZE == 8
MAX_BATCH_SIZE == 128

None == <<>>
Some(x) == <<x>>

\* ------------------------------------------------------------ input sets
IndexPath == "idx"
Models == {"A", "B"}
Ids == {"d1", "d2"}
Texts == {"t1", "t2"}
Queries == {"q1", "q2"}
\* a caller-supplied hash that SQLite cannot bind (a JSON array or object)
BadHash == "<unbindable>"
NoMetadata == {}
SomeMetadata == {<<"k", "v">>}
\* a batchSize as JSON gives it: absent or null, an integer, a value int()
\* rejects (a string such as "abc", a list), or the float infinity that
\* json.loads reads from 1e999 and from Infinity
NoBatchSize == [kind |-> "none"]
IntBatchSize(n) == [kind |-> "int", value |-> n]
NotANumber == [kind |-> "str"]
Infinity == [kind |-> "inf"]

\* ------------------------------------------------- the embedding provider
\* encode's vector for one text, fixed per (model, text) and of length 1
\* as normalize_embeddings=True asks (lines 217, 290), so that a score is a
\* cosine; model A has dimension 2 and model B dimension 3; model C has
\* dimension 2 as A has, and other vectors for the texts
Vec(model, text) ==
    IF model = "A"
    THEN CASE text = "t1" -> <<1, 0>>
           [] text = "t2" -> <<0, 1>>
           [] text = "q1" -> <<0, -1>>
           [] OTHER       -> <<1, 0>>
    ELSE IF model = "C"
    THEN CASE text = "t1" -> <<-1, 0>>
           [] text = "t2" -> <<0, -1>>
           [] text = "q1" -> <<0, 1>>
           [] OTHER       -> <<1, 0>>
    ELSE CASE text = "t1" -> <<1, 0, 0>>
           [] text = "t2" -> <<0, 1, 0>>
           [] text = "q1" -> <<0, -1, 0>>
           [] OTHER       -> <<1, 0, 0>>

\* model.encode(texts, ...): one vector per text, in order
encode(model, texts) == [i \in 1..Len(texts) |-> Vec(model, texts[i])]

\* ------------------------------------------------------- pure functions
compute_hash(text, model) == model \o "|" \o text

\* what a call gives back: a value, or the exception it raises
Returned(v) == [raises |-> FALSE, value |-> v]
Raised(e) == [raises |-> TRUE, exception |-> e]

\* lines 37-65: int() raises ValueError or TypeError on a value it cannot
\* read, both caught, and OverflowError on the float infinity, not caught
validate_batch_size(batch_value) ==
    CASE batch_value.kind = "none" -> Returned(DEFAULT_BATCH_SIZE)
      [] batch_value.kind = "str"  -> Returned(DEFAULT_BATCH_SIZE)
      [] batch_value.kind = "inf"  -> Raised("OverflowError")
      [] OTHER ->
           LET batch_int == batch_value.value
           IN IF batch_int < 1 THEN Returned(1)
              ELSE IF batch_int > MAX_BATCH_SIZE THEN Returned(MAX_BATCH_SIZE)
              ELSE Returned(batch_int)

\* the four little-endian bytes of a float32 component
F32Bytes(x) ==
    CASE x = 0  -> <<0, 0, 0, 0>>
      [] x = 1  -> <<0, 0, 128, 63>>
      [] x = -1 -> <<0, 0, 128, 191>>
      [] OTHER  -> <<0, 0, 0, 64>>

F32Value(b) ==
    CASE b = <<0, 0, 0, 0>>     -> 0
      [] b = <<0, 0, 128, 63>>  -> 1
      [] b = <<0, 0, 128, 191>> -> -1
      [] OTHER                  -> 2

\* np.asarray(vector, dtype=np.float32).tobytes()
RECURSIVE serialize_vector(_)
serialize_vector(vector) ==
    IF vector = <<>> THEN <<>>
    ELSE F32Bytes(Head(vector)) \o serialize_vector(Tail(vector))

\* np.frombuffer(blob, dtype=np.float32)
deserialize_vector(blob) ==
    [i \in 1..(Len(blob) \div 4) |-> F32Value(SubSeq(blob, 4 * i - 3, 4 * i))]

\* json.dumps of a metadata dict
json_dumps(metadata) ==
    IF metadata = {} THEN "{}" ELSE "{\"k\": \"v\"}"

\* stands for a text of ten thousands of "[": brackets nested deeper than the
\* interpreter's recursion limit, and never closed
Nested == "[[[[[[[[[["

\* json.loads of a text: the value, JSONDecodeError for a text that is not
\* JSON, RecursionError when the nesting exhausts the recursion limit before
\* the parser reaches the end
json_loads(s) ==
    CASE s = "{}"              -> [raises |-> FALSE, value |-> {}]
      [] s = "{\"k\": \"v\"}"  -> [raises |-> FALSE, value |-> {<<"k", "v">>}]
      [] s = Nested            -> [raises |-> TRUE, exception |-> "RecursionError"]
      [] OTHER                 -> [raises |-> TRUE, exception |-> "JSONDecodeError"]

\* lines 247-250: load_index_cache's parse of the metadata column, for a
\* NULL or empty column (both ""), a text json.loads reads and a text it
\* rejects with JSONDecodeError
parse_metadata(metadata_json) ==
    CASE metadata_json = ""                -> {}
      [] metadata_json = "{}"              -> {}
      [] metadata_json = "{\"k\": \"v\"}"  -> {<<"k", "v">>}
      [] OTHER                             -> {<<"raw", metadata_json>>}

\* lines 247-250: `except json.JSONDecodeError` lets every other exception
\* of json.loads leave load_index_cache
parse_metadata_raises(metadata_json) ==
    /\ metadata_json # ""
    /\ json_loads(metadata_json).raises
    /\ json_loads(metadata_json).exception # "JSONDecodeError"

str(n) ==
    CASE n = 0 -> "0"
      [] n = 1 -> "1"
      [] n = 2 -> "2"
      [] OTHER -> "3"

get_db_path_name(index_path) == index_path \o "/index.sqlite3"

RECURSIVE Dot(_, _)
Dot(u, v) ==
    IF u = <<>> THEN 0 ELSE Head(u) * Head(v) + Dot(Tail(u), Tail(v))

\* ------------------------------------------------------ responses
ErrorResponse(msg) == [status |-> "error", error |-> msg]

\* what a handler leaves behind: the process and store state w, the JSON
\* response main prints, and the encode calls it made on the provider
Outcome(w, resp, calls) == [w |-> w, resp |-> resp, calls |-> calls]

\* ------------------------------------------------------------ the store
\* ensure_dir + os.path.join: the directory exists afterwards
get_db_path(w) == [w EXCEPT !.dirExists = TRUE]

\* with_connection + ensure_schema: the database file and both tables exist
ensure_schema(w) == [w EXCEPT !.tables = TRUE]

\* the required fields looked at only after the store was opened
input_error_after_open(w, message) ==
    Outcome([w EXCEPT !.dirExists = TRUE, !.tables = TRUE],
            ErrorResponse(message), <<>>)

\* lines 160-161, 187-188, 276-277, 318-319: a required field is missing
\* or empty; the handler returns before it touches anything
input_error(w, message) == Outcome(w, ErrorResponse(message), <<>>)

\* the import result taken to be a class whatever it was
SentenceTransformer_is_None_unchecked(provider) == FALSE

\* line 117: `if SentenceTransformer is None`, the import at line 27 failed
SentenceTransformer_is_None(provider) == provider = "missing"

\* get_model: the provider instance for model_name is cached for the process
get_model(w, model_name) ==
    [w EXCEPT !.MODEL_CACHE = @ \cup {model_name}]

\* ensure_model_meta without its `DELETE FROM documents`
ensure_model_meta_keeps_rows(documents, meta, model, dimension) ==
    [documents |-> documents,
     meta |-> [k \in {"model", "dimension"} |->
                   IF k = "model" THEN model ELSE str(dimension)]]

\* ensure_model_meta that leaves the recorded model in place on a switch
ensure_model_meta_keeps_model(documents, meta, model, dimension) ==
    IF "model" \notin DOMAIN meta
    THEN [documents |-> documents,
          meta |-> [k \in {"model", "dimension"} |->
                        IF k = "model" THEN model ELSE str(dimension)]]
    ELSE [documents |-> IF meta["model"] # model THEN <<>> ELSE documents,
          meta |-> [k \in {"model", "dimension"} |->
                        IF k = "model" THEN meta["model"] ELSE str(dimension)]]

\* ensure_model_meta: returns the committed documents and meta tables
ensure_model_meta(documents, meta, model, dimension) ==
    IF "model" \notin DOMAIN meta
    THEN [documents |-> documents,
          meta |-> [k \in {"model", "dimension"} |->
                        IF k = "model" THEN model ELSE str(dimension)]]
    ELSE IF meta["model"] # model
    THEN [documents |-> <<>>,
          meta |-> [k \in {"model", "dimension"} |->
                        IF k = "model" THEN model ELSE str(dimension)]]
    ELSE [documents |-> documents,
          meta |-> [k \in {"model", "dimension"} |->
                        IF k = "model" THEN meta["model"] ELSE str(dimension)]]

\* lines 138-154 after the SELECT of lines 136-137 returned `row` (None, or
\* Some(model)): the branch taken on what was read, its writes applied to
\* the tables as committed when the branch commits
ensure_model_meta_after(documents, meta, row, model, dimension) ==
    IF row = None
    THEN [documents |-> documents,
          meta |-> [k \in {"model", "dimension"} |->
                        IF k = "model" THEN model ELSE str(dimension)]]
    ELSE IF row[1] # model
    THEN [documents |-> <<>>,
          meta |-> [k \in {"model", "dimension"} |->
                        IF k = "model" THEN model ELSE str(dimension)]]
    ELSE [documents |-> documents,
          meta |-> [k \in DOMAIN meta \cup {"dimension"} |->
                        IF k = "dimension" THEN str(dimension) ELSE meta[k]]]

\* SELECT value FROM meta WHERE key = 'model'
RecordedModel(metaTable) ==
    IF "model" \in DOMAIN metaTable THEN Some(metaTable["model"]) ELSE None

IdsOf(table) == {table[i].id : i \in 1..Len(table)}

\* the updated_at of the row scanned first
MaxUpdatedAt_of_first_row(documents) ==
    IF documents = <<>> THEN 0 ELSE Head(documents).updated_at

\* a version one past the newest row's updated_at
MaxUpdatedAt_ahead(documents) ==
    IF documents = <<>> THEN 1 ELSE documents[Len(documents)].updated_at + 1

\* SELECT MAX(updated_at) FROM documents, with NULL read as 0
RECURSIVE MaxUpdatedAt(_)
MaxUpdatedAt(documents) ==
    IF documents = <<>> THEN 0
    ELSE LET m == MaxUpdatedAt(Tail(documents))
         IN IF Head(documents).updated_at > m THEN Head(documents).updated_at ELSE m

HasRow(documents, id) == \E i \in 1..Len(documents) : documents[i].id = id

RowOf(documents, id) ==
    documents[CHOOSE i \in 1..Len(documents) : documents[i].id = id]

\* the rows of the table other than id's, in rowid order
RECURSIVE WithoutRow(_, _)
WithoutRow(documents, id) ==
    IF documents = <<>> THEN <<>>
    ELSE IF Head(documents).id = id THEN WithoutRow(Tail(documents), id)
         ELSE <<Head(documents)>> \o WithoutRow(Tail(documents), id)

\* INSERT OR REPLACE INTO documents: the old row of the id is deleted and
\* the new row gets a fresh rowid, so it is scanned last
InsertOrReplace(documents, row) == Append(WithoutRow(documents, row.id), row)

\* ----------------------------------------------------------- upsert
\* line 207: doc.get('hash') or compute_hash(doc.get('text', ''), model_name)
content_hash_of(doc, model_name) ==
    IF doc.hash # "" THEN doc.hash ELSE compute_hash(doc.text, model_name)

\* no incoming document is taken for unchanged
is_unchanged_never(documents, doc, model_name) == FALSE

\* line 208: existing.get(doc['id']) == content_hash
is_unchanged(documents, doc, model_name) ==
    /\ HasRow(documents, doc.id)
    /\ RowOf(documents, doc.id).content_hash = content_hash_of(doc, model_name)

\* lines 205-210: the incoming documents that are embedded, in payload order
RECURSIVE to_embed_of(_, _, _)
to_embed_of(documents, incoming, model_name) ==
    IF incoming = <<>> THEN <<>>
    ELSE LET doc == Head(incoming)
             rest == to_embed_of(documents, Tail(incoming), model_name)
         IN IF is_unchanged(documents, doc, model_name) THEN rest
            ELSE <<[id |-> doc.id, text |-> doc.text,
                    content_hash |-> content_hash_of(doc, model_name),
                    metadata |-> doc.metadata]>> \o rest

\* line 219: `len(embeddings[0]) if embeddings else 0` takes the truth value
\* of encode's result: a list is true when non-empty, a numpy array of more
\* than one element raises ValueError
truth_value_raises(provider, embeddings) ==
    /\ provider = "ndarray"
    /\ Len(embeddings) * Len(embeddings[1]) > 1

\* sqlite3 binds str, bytes and numbers only
is_bindable(content_hash) == content_hash # BadHash

\* lines 223-228: one INSERT OR REPLACE per embedded document, in order
RECURSIVE write_rows(_, _, _, _)
write_rows(documents, to_embed, embeddings, now) ==
    IF to_embed = <<>> THEN documents
    ELSE write_rows(
             InsertOrReplace(documents,
                 [id |-> Head(to_embed).id,
                  content_hash |-> Head(to_embed).content_hash,
                  metadata |-> json_dumps(Head(to_embed).metadata),
                  vector |-> serialize_vector(Head(embeddings)),
                  updated_at |-> now]),
             Tail(to_embed), Tail(embeddings), now)

\* an upsert that leaves the cache entry in place
pop_index_cache_skipped(cache, db_path) == cache

\* an upsert that drops every entry of the cache
pop_index_cache_all(cache, db_path) == <<>>

\* line 231: INDEX_CACHE.pop(db_path, None)
pop_index_cache(cache, db_path) ==
    [k \in (DOMAIN cache) \ {db_path} |-> cache[k]]

\* lines 215-233: embed, record the model, write the rows, commit, evict
embed_and_write(payload, w, provider, now, to_embed) ==
    LET model_name == payload.model
        texts == [i \in 1..Len(to_embed) |-> to_embed[i].text]
        validated_batch_size == validate_batch_size(payload.batchSize)
        embeddings == encode(model_name, texts)
        calls == <<[model |-> model_name, texts |-> texts,
                    batch_size |-> validated_batch_size.value]>>
    IN IF validated_batch_size.raises
       THEN Outcome(w, ErrorResponse("cannot convert float infinity to integer"), <<>>)
       ELSE IF truth_value_raises(provider, embeddings)
       THEN Outcome(w, ErrorResponse("truth value of an array is ambiguous"), calls)
       ELSE LET dimension == Len(embeddings[1])
                committed == ensure_model_meta(w.documents, w.meta, model_name, dimension)
                w2 == [w EXCEPT !.documents = committed.documents,
                                !.meta = committed.meta]
            IN IF \E i \in 1..Len(to_embed) : ~is_bindable(to_embed[i].content_hash)
               THEN \* the INSERT raises; closing the connection rolls the rows back
                    Outcome(w2, ErrorResponse("Error binding parameter"), calls)
               ELSE Outcome(
                        [w2 EXCEPT
                            !.documents = write_rows(w2.documents, to_embed, embeddings, now),
                            !.INDEX_CACHE = pop_index_cache(@, get_db_path_name(payload.indexPath))],
                        [status |-> "ok", updated |-> Len(to_embed)],
                        calls)

\* a return with nothing to embed that evicts the cache entry all the same
nothing_to_embed_evicting(payload, w) ==
    Outcome([w EXCEPT !.INDEX_CACHE =
                 pop_index_cache(@, get_db_path_name(payload.indexPath))],
            [status |-> "ok", updated |-> 0], <<>>)

\* lines 212-213: `if not to_embed: return {"status": "ok", "updated": 0}`
nothing_to_embed(payload, w) == Outcome(w, [status |-> "ok", updated |-> 0], <<>>)

\* the store opened before the documents list is looked at
empty_input_outcome_after_open(w) ==
    Outcome(ensure_schema(get_db_path(w)), [status |-> "ok", updated |-> 0], <<>>)

\* lines 190-191: `if not documents: return {"status": "ok", "updated": 0}`
empty_input_outcome(w) == Outcome(w, [status |-> "ok", updated |-> 0], <<>>)

command_upsert(payload, w, provider, now) ==
    IF payload.indexPath = "" \/ payload.model = ""
    THEN input_error(w, "indexPath and model required")
    ELSE IF payload.documents = <<>>
    THEN empty_input_outcome(w)
    ELSE IF SentenceTransformer_is_None(provider)
    THEN Outcome(w, ErrorResponse("sentence-transformers missing"), <<>>)
    ELSE LET w1 == ensure_schema(get_db_path(get_model(w, payload.model)))
             to_embed == to_embed_of(w1.documents, payload.documents, payload.model)
         IN IF to_embed = <<>>
            THEN nothing_to_embed(payload, w1)
            ELSE embed_and_write(payload, w1, provider, now, to_embed)

\* ------------------------------------------------------ index cache
\* a scan whose entry is not stamped with the table's MAX(updated_at)
materialize_unstamped(documents) ==
    [version |-> 0,
     rows |-> [i \in 1..Len(documents) |->
                  <<documents[i].id, parse_metadata(documents[i].metadata)>>],
     matrix |-> [i \in 1..Len(documents) |-> deserialize_vector(documents[i].vector)]]

\* a scan that stacks the vectors in the opposite order of the rows
materialize_misaligned(documents) ==
    [version |-> MaxUpdatedAt(documents),
     rows |-> [i \in 1..Len(documents) |->
                  <<documents[i].id, parse_metadata(documents[i].metadata)>>],
     matrix |-> [i \in 1..Len(documents) |->
                    deserialize_vector(documents[Len(documents) + 1 - i].vector)]]

\* lines 245-264: one scan of the documents table, in rowid order
materialize(documents) ==
    [version |-> MaxUpdatedAt(documents),
     rows |-> [i \in 1..Len(documents) |->
                  <<documents[i].id, parse_metadata(documents[i].metadata)>>],
     matrix |-> [i \in 1..Len(documents) |-> deserialize_vector(documents[i].vector)]]

\* lines 245-266 on a table whose metadata column may hold any text: the
\* entry, or the exception that leaves the scan
scan_documents(documents) ==
    IF \E i \in 1..Len(documents) : parse_metadata_raises(documents[i].metadata)
    THEN LET i == CHOOSE i \in 1..Len(documents) :
                      /\ parse_metadata_raises(documents[i].metadata)
                      /\ \A j \in 1..(i - 1) : ~parse_metadata_raises(documents[j].metadata)
         IN Raised(json_loads(documents[i].metadata).exception)
    ELSE Returned(materialize(documents))

\* an entry under the key is returned whatever its version
cache_hit_any_version(cache, db_path, latest) == db_path \in DOMAIN cache

\* lines 241-243: the cached entry is returned when its version is the
\* table's MAX(updated_at)
cache_hit(cache, db_path, latest) ==
    /\ db_path \in DOMAIN cache
    /\ cache[db_path].version = latest

\* load_index_cache: the entry to rank against and the cache afterwards
load_index_cache(documents, cache, db_path) ==
    IF cache_hit(cache, db_path, MaxUpdatedAt(documents))
    THEN [entry |-> cache[db_path], cache |-> cache]
    ELSE LET cache_entry == materialize(documents)
         IN [entry |-> cache_entry,
             cache |-> [k \in DOMAIN cache \cup {db_path} |->
                           IF k = db_path THEN cache_entry ELSE cache[k]]]

\* load_index_cache on a table whose metadata column may hold any text:
\* what it returns or raises, and the cache afterwards (an exception leaves
\* before line 265 stores anything)
load_index_cache_scanning(documents, cache, db_path) ==
    IF cache_hit(cache, db_path, MaxUpdatedAt(documents))
    THEN [result |-> Returned(cache[db_path]), cache |-> cache]
    ELSE LET scanned == scan_documents(documents)
         IN IF scanned.raises
            THEN [result |-> scanned, cache |-> cache]
            ELSE [result |-> scanned,
                  cache |-> [k \in DOMAIN cache \cup {db_path} |->
                                IF k = db_path THEN scanned.value ELSE cache[k]]]

\* ----------------------------------------------------------- search
\* line 273: int(payload.get('limit') or 8)
limit_of(payload) ==
    IF payload.limit = None \/ payload.limit = Some(0)
    THEN DEFAULT_LIMIT ELSE payload.limit[1]

\* line 274: float(payload.get('minScore') or 0)
min_score_of(payload) ==
    IF payload.minScore = None THEN 0 ELSE payload.minScore[1]

\* line 292: matrix.dot(query_vec)
scores_of(matrix, query_vec) ==
    [i \in 1..Len(matrix) |-> Dot(matrix[i], query_vec)]

IsPermutation(p, n) ==
    /\ Len(p) = n
    /\ \A i \in 1..n : \E j \in 1..n : p[j] = i

\* np.argsort(scores): the index orders that sort scores ascending; the
\* default sort is not stable, so equal scores come in either order
argsort(scores) ==
    {p \in [1..Len(scores) -> 1..Len(scores)] :
        /\ IsPermutation(p, Len(scores))
        /\ \A i \in 1..(Len(scores) - 1) : scores[p[i]] <= scores[p[i + 1]]}

\* the ascending order used as it is
reversed_skipped(p) == p

\* line 297: [::-1]
reversed(p) == [i \in 1..Len(p) |-> p[Len(p) + 1 - i]]

\* no score is ever skipped
below_min_score_never(score, min_score) == FALSE

\* line 301: a score below min_score is skipped
below_min_score(score, min_score) == score < min_score

\* the loop never ends early
limit_reached_never(results, limit) == FALSE

\* line 309: the loop ends once len(results) >= limit
limit_reached(results, limit) == Len(results) >= limit

\* lines 298-310: the loop over order, from position i on
RECURSIVE collect_results(_, _, _, _, _, _, _)
collect_results(order, i, scores, rows, min_score, limit, results) ==
    IF i > Len(order) THEN results
    ELSE LET idx == order[i]
         IN IF below_min_score(scores[idx], min_score)
            THEN collect_results(order, i + 1, scores, rows, min_score, limit, results)
            ELSE LET appended == Append(results,
                                     [id |-> rows[idx][1],
                                      score |-> scores[idx],
                                      metadata |-> rows[idx][2]])
                 IN IF limit_reached(appended, limit) THEN appended
                    ELSE collect_results(order, i + 1, scores, rows,
                                         min_score, limit, appended)

\* the emptiness test left out
is_empty_matrix_never(matrix) == FALSE

\* line 287: matrix.shape[0] == 0
is_empty_matrix(matrix) == Len(matrix) = 0

\* matrix.shape[1]; the matrix of an empty table is np.zeros((0, 1))
matrix_width(matrix) == IF Len(matrix) = 0 THEN 1 ELSE Len(matrix[1])

\* lines 286-312: rank cache_entry against the query; one outcome per
\* order argsort may produce
rank(payload, w, cache_entry) ==
    LET matrix == cache_entry.matrix
        query_vec == encode(payload.model, <<payload.query>>)[1]
        calls == <<[model |-> payload.model, texts |-> <<payload.query>>]>>
    IN IF is_empty_matrix(matrix)
       THEN {Outcome(w, [status |-> "ok", results |-> <<>>], <<>>)}
       ELSE IF matrix_width(matrix) # Len(query_vec)
       THEN {Outcome(w, ErrorResponse("shapes not aligned"), calls)}
       ELSE LET scores == scores_of(matrix, query_vec)
            IN {Outcome(w,
                    [status |-> "ok",
                     results |-> collect_results(reversed(order), 1, scores,
                                     cache_entry.rows, min_score_of(payload),
                                     limit_of(payload), <<>>)],
                    calls) : order \in argsort(scores)}

\* command_search: the set of outcomes the call may have
command_search(payload, w, provider) ==
    IF payload.indexPath = "" \/ payload.model = "" \/ payload.query = ""
    THEN {input_error(w, "indexPath, model, and query required")}
    ELSE IF SentenceTransformer_is_None(provider)
    THEN {Outcome(w, ErrorResponse("sentence-transformers missing"), <<>>)}
    ELSE LET w1 == ensure_schema(get_db_path(get_model(w, payload.model)))
             loaded == load_index_cache(w1.documents, w1.INDEX_CACHE,
                                        get_db_path_name(payload.indexPath))
         IN rank(payload, [w1 EXCEPT !.INDEX_CACHE = loaded.cache], loaded.entry)

\* ---------------------------------------------------- status and stats
\* a status that answers only for the recorded model
command_status_for_recorded_model(payload, w) ==
    IF payload.indexPath = "" \/ payload.model = ""
    THEN input_error(w, "indexPath and model required")
    ELSE IF RecordedModel(w.meta) \notin {None, Some(payload.model)}
    THEN Outcome(ensure_schema(get_db_path(w)), ErrorResponse("model mismatch"), <<>>)
    ELSE Outcome(ensure_schema(get_db_path(w)),
                 [status |-> "ok", indexPath |-> payload.indexPath,
                  model |-> payload.model],
                 <<>>)

command_status(payload, w) ==
    IF payload.indexPath = "" \/ payload.model = ""
    THEN input_error(w, "indexPath and model required")
    ELSE Outcome(ensure_schema(get_db_path(w)),
                 [status |-> "ok", indexPath |-> payload.indexPath,
                  model |-> payload.model],
                 <<>>)

\* a stats that reads the rows through the index cache
command_stats_through_cache(payload, w) ==
    IF payload.indexPath = "" \/ payload.model = ""
    THEN input_error(w, "indexPath and model required")
    ELSE LET w1 == ensure_schema(get_db_path(w))
             loaded == load_index_cache(w1.documents, w1.INDEX_CACHE,
                                        get_db_path_name(payload.indexPath))
         IN Outcome([w1 EXCEPT !.INDEX_CACHE = loaded.cache],
                    [status |-> "ok",
                     documents |-> Len(loaded.entry.rows),
                     last_updated |-> IF w.documents = <<>> THEN None
                                      ELSE Some(loaded.entry.version),
                     model |-> RecordedModel(w.meta),
                     dimension |-> IF "dimension" \in DOMAIN w.meta
                                   THEN Some(w.meta["dimension"]) ELSE None,
                     indexPath |-> payload.indexPath],
                    <<>>)

command_stats(payload, w) ==
    IF payload.indexPath = "" \/ payload.model = ""
    THEN input_error(w, "indexPath and model required")
    ELSE Outcome(ensure_schema(get_db_path(w)),
                 [status |-> "ok",
                  documents |-> Len(w.documents),
                  last_updated |-> IF w.documents = <<>> THEN None
                                   ELSE Some(MaxUpdatedAt(w.documents)),
                  model |-> RecordedModel(w.meta),
                  dimension |-> IF "dimension" \in DOMAIN w.meta
                                THEN Some(w.meta["dimension"]) ELSE None,
                  indexPath |-> payload.indexPath],
                 <<>>)

\* ------------------------------------------------------------ requests
\* documents of two ids: d1 with either text, d2 with and without metadata,
\* one with a caller-supplied hash and one with a hash SQLite cannot bind
DocInputs ==
    {[id |-> "d1", text |-> "t1", hash |-> "", metadata |-> NoMetadata],
     [id |-> "d1", text |-> "t2", hash |-> "", metadata |-> NoMetadata],
     [id |-> "d2", text |-> "t2", hash |-> "", metadata |-> NoMetadata],
     [id |-> "d2", text |-> "t2", hash |-> "", metadata |-> SomeMetadata],
     [id |-> "d1", text |-> "t2", hash |-> "h1", metadata |-> NoMetadata],
     [id |-> "d2", text |-> "t2", hash |-> BadHash, metadata |-> NoMetadata]}

DocLists == UNION {[1..n -> DocInputs] : n \in 0..MaxDocs}

OneDoc == <<[id |-> "d1", text |-> "t1", hash |-> "", metadata |-> NoMetadata]>>

\* batch sizes below, inside and above [1, MAX_BATCH_SIZE], and unreadable ones
BatchSizes ==
    {IntBatchSize(0), IntBatchSize(4), IntBatchSize(MAX_BATCH_SIZE + 1),
     NotANumber, Infinity}

UpsertPayloads ==
    [indexPath : {IndexPath}, model : Models, documents : DocLists,
     batchSize : {NoBatchSize}]
    \cup [indexPath : {IndexPath}, model : Models, documents : {OneDoc},
          batchSize : BatchSizes]
    \cup [indexPath : {"", IndexPath}, model : {""}, documents : {OneDoc},
          batchSize : {NoBatchSize}]
    \cup [indexPath : {""}, model : Models, documents : {OneDoc},
          batchSize : {NoBatchSize}]

Limits == {None, Some(0), Some(-1), Some(1), Some(2)}
MinScores == {None, Some(1), Some(-1)}

SearchPayloads ==
    [indexPath : {IndexPath}, model : Models, query : Queries,
     limit : Limits, minScore : MinScores]
    \cup [indexPath : {IndexPath}, model : Models, query : {""},
          limit : {None}, minScore : {None}]
    \cup [indexPath : {"", IndexPath}, model : {""}, query : Queries,
          limit : {None}, minScore : {None}]
    \cup [indexPath : {""}, model : Models, query : Queries,
          limit : {None}, minScore : {None}]

StatusPayloads == [indexPath : {"", IndexPath}, model : {""} \cup Models]

NoRequest == [command |-> "none"]
NoResponse == [status |-> "none"]

\* --------------------------------------------------------------- state
VARIABLES
    provider,     \* what `from sentence_transformers import ...` gave the process
    dirExists,    \* the index directory exists
    tables,       \* the database file with its two tables exists
    documents,    \* the documents table, rows in rowid order
    meta,         \* the meta table: key -> value
    INDEX_CACHE,  \* db_path -> cache entry
    MODEL_CACHE,  \* the model names with a cached provider instance
    clock,        \* time.time()
    pc,           \* main: "idle" (not running), "printed" (response out),
                  \* "raised" (left by an exception); "returned" for a
                  \* function called on its own
    req,          \* the command and payload main has read
    resp,         \* the response main printed for req
    calls,        \* the encode calls the handler of req made on the provider
    before,       \* the store and the caches as the handler of req found them
    procs,        \* the processes sharing the store, each at a step of its
                  \* command (SpecProcs; none in Spec, whose one process is
                  \* the variables above)
    other,        \* a second store of the file system, at OtherPath: its
                  \* directory, tables, documents and descriptor
    file          \* how far the database file has been set up, for the
                  \* processes of SpecProcs (elsewhere with_connection and
                  \* ensure_schema run with nothing in between, and `tables`
                  \* says it all)

vars == <<provider, dirExists, tables, documents, meta, INDEX_CACHE,
          MODEL_CACHE, clock, pc, req, resp, calls, before, procs, other, file>>

NoProcs == <<>>

\* a database file no connection has touched: in the default journal mode,
\* without tables
NewFile == [wal |-> FALSE, created |-> 0]

\* a store nothing has opened yet
UnopenedStore ==
    [dirExists |-> FALSE, tables |-> FALSE, documents |-> <<>>, meta |-> <<>>]

World ==
    [dirExists |-> dirExists, tables |-> tables, documents |-> documents,
     meta |-> meta, INDEX_CACHE |-> INDEX_CACHE, MODEL_CACHE |-> MODEL_CACHE]

EmptyWorld ==
    [dirExists |-> FALSE, tables |-> FALSE, documents |-> <<>>,
     meta |-> <<>>, INDEX_CACHE |-> <<>>, MODEL_CACHE |-> {}]

Init ==
    /\ provider \in {"missing", "list", "ndarray"}
    /\ dirExists = FALSE
    /\ tables = FALSE
    /\ documents = <<>>
    /\ meta = <<>>
    /\ INDEX_CACHE = <<>>
    /\ MODEL_CACHE = {}
    /\ clock = 1
    /\ pc = "idle"
    /\ req = NoRequest
    /\ resp = NoResponse
    /\ calls = <<>>
    /\ before = EmptyWorld
    /\ procs = NoProcs
    /\ other = UnopenedStore
    /\ file = NewFile

\* main reads argv[1] and the payload from stdin, runs the handler and prints
\* its result; the handler's effects are in place
main(command, payload, out) ==
    /\ pc' = "printed"
    /\ req' = [command |-> command, payload |-> payload]
    /\ dirExists' = out.w.dirExists
    /\ tables' = out.w.tables
    /\ documents' = out.w.documents
    /\ meta' = out.w.meta
    /\ INDEX_CACHE' = out.w.INDEX_CACHE
    /\ MODEL_CACHE' = out.w.MODEL_CACHE
    /\ resp' = out.resp
    /\ calls' = out.calls
    /\ before' = World
    /\ UNCHANGED <<provider, clock, procs, other, file>>

Status ==
    /\ pc = "idle"
    /\ \E payload \in StatusPayloads :
           \E out \in {command_status(payload, World)} :
               main("status", payload, out)

Upsert ==
    /\ pc = "idle"
    /\ \E payload \in UpsertPayloads :
           \E out \in {command_upsert(payload, World, provider, clock)} :
               main("upsert", payload, out)

Search ==
    /\ pc = "idle"
    /\ \E payload \in SearchPayloads :
           \E out \in command_search(payload, World, provider) :
               main("search", payload, out)

Stats ==
    /\ pc = "idle"
    /\ \E payload \in StatusPayloads :
           \E out \in {command_stats(payload, World)} :
               main("stats", payload, out)

\* lines 338-343: the command names that have a handler
COMMANDS == {"status", "upsert", "search", "stats"}

\* a payload that json.loads rejects
MalformedPayload == "{bad"

\* lines 347-349: argv has no command; no handler is looked up
MissingCommand ==
    /\ pc = "idle"
    /\ main("", "{}", Outcome(World, ErrorResponse("command required"), <<>>))

\* lines 351-355: the command has no handler; the payload is not read
UnknownCommand ==
    /\ pc = "idle"
    /\ main("bogus", "{}", Outcome(World, ErrorResponse("unknown command: bogus"), <<>>))

\* lines 357 and 68-76: load_payload raises SystemExit on a payload that
\* is not JSON; the call is outside main's try, so the exception leaves
\* main, which prints nothing: the interpreter writes the exception's
\* message to stderr and exits with status 1
RejectPayload ==
    /\ pc = "idle"
    /\ \E command \in COMMANDS :
           req' = [command |-> command, payload |-> MalformedPayload]
    /\ pc' = "raised"
    /\ resp' = NoResponse
    /\ calls' = <<>>
    /\ before' = World
    /\ UNCHANGED <<provider, dirExists, tables, documents, meta, INDEX_CACHE,
                   MODEL_CACHE, clock, procs, other, file>>

\* main returns; the caller has the response
Return ==
    /\ pc # "idle"
    /\ pc' = "idle"
    /\ req' = NoRequest
    /\ resp' = NoResponse
    /\ calls' = <<>>
    /\ before' = EmptyWorld
    /\ UNCHANGED <<provider, dirExists, tables, documents, meta, INDEX_CACHE,
                   MODEL_CACHE, clock, procs, other, file>>

\* the wall clock advances between commands
Tick ==
    /\ pc = "idle"
    /\ clock < MaxClock
    /\ clock' = clock + 1
    /\ UNCHANGED <<provider, dirExists, tables, documents, meta, INDEX_CACHE,
                   MODEL_CACHE, pc, req, resp, calls, before, procs, other, file>>

\* the process ends and a new one starts: both caches start empty
Restart ==
    /\ pc = "idle"
    /\ INDEX_CACHE' = <<>>
    /\ MODEL_CACHE' = {}
    /\ UNCHANGED <<provider, dirExists, tables, documents, meta, clock,
                   pc, req, resp, calls, before, procs, other, file>>

\* the embedding package is removed: the next process starts without it
\* (the import at lines 26-29 fails) and with empty caches
Uninstall ==
    /\ pc = "idle"
    /\ provider # "missing"
    /\ provider' = "missing"
    /\ INDEX_CACHE' = <<>>
    /\ MODEL_CACHE' = {}
    /\ UNCHANGED <<dirExists, tables, documents, meta, clock,
                   pc, req, resp, calls, before, procs, other, file>>

Next ==
    \/ Status
    \/ Upsert
    \/ Search
    \/ Stats
    \/ MissingCommand
    \/ UnknownCommand
    \/ RejectPayload
    \/ Return
    \/ Tick
    \/ Restart
    \/ Uninstall

Spec == Init /\ [][Next]_vars

\* ------------------------------------------- the pure functions, called
\* model names and texts, some with the separator compute_hash puts
\* between them, and the empty text
HashModels == Models \cup {"A|t1"}
HashTexts == Texts \cup {"", "t1|t2"}

\* every kind of batchSize; the integers reach past both ends of the range
BatchValues ==
    {NoBatchSize, NotANumber, Infinity}
    \cup {IntBatchSize(n) : n \in -2..(MAX_BATCH_SIZE + 2)}

\* a call of one function: its arguments in req, what it gave back in resp
Call(function, arguments, result) ==
    /\ pc = "idle"
    /\ pc' = "returned"
    /\ req' = [command |-> function, payload |-> arguments]
    /\ resp' = result
    /\ UNCHANGED <<provider, dirExists, tables, documents, meta, INDEX_CACHE,
                   MODEL_CACHE, clock, calls, before, procs, other, file>>

CallComputeHash ==
    \E model \in HashModels, text \in HashTexts :
        Call("compute_hash", [text |-> text, model |-> model],
             Returned(compute_hash(text, model)))

CallValidateBatchSize ==
    \E batch_value \in BatchValues :
        Call("validate_batch_size", batch_value, validate_batch_size(batch_value))

\* what the metadata column can hold once something other than upsert has
\* written to the file: NULL or "", JSON objects, texts that are not JSON
MetadataTexts == {"", "{}", "{\"k\": \"v\"}", "{bad", Nested}

StoredRow(id, metadata_json) ==
    [id |-> id, content_hash |-> compute_hash("t1", "A"), metadata |-> metadata_json,
     vector |-> serialize_vector(Vec("A", "t1")), updated_at |-> 1]

\* tables of up to two rows
StoredTables ==
    {<<>>}
    \cup {<<StoredRow("d1", m)>> : m \in MetadataTexts}
    \cup {<<StoredRow("d1", m1), StoredRow("d2", m2)>> :
              m1 \in MetadataTexts, m2 \in MetadataTexts}

\* load_index_cache on the store at IndexPath holding the table, in a
\* process that keeps the entries its earlier calls stored
CallLoadIndexCache ==
    /\ pc = "idle"
    /\ \E table \in StoredTables :
           \E out \in {load_index_cache_scanning(table, INDEX_CACHE,
                                                get_db_path_name(IndexPath))} :
               /\ pc' = "returned"
               /\ req' = [command |-> "load_index_cache", payload |-> table]
               /\ resp' = out.result
               /\ INDEX_CACHE' = out.cache
               /\ before' = World
               /\ UNCHANGED <<provider, dirExists, tables, documents, meta,
                              MODEL_CACHE, clock, calls, procs, other, file>>

NextPure ==
    \/ CallComputeHash
    \/ CallValidateBatchSize
    \/ CallLoadIndexCache
    \/ Return

SpecPure == Init /\ [][NextPure]_vars

\* ------------------------------------------- processes sharing the store
\* Several processes run commands against one store, statement by
\* statement.  A process sees what is committed when its statement runs;
\* in WAL mode readers are never blocked and one connection writes at a
\* time; every process has the same provider installed and its own
\* INDEX_CACHE.  Statements that touch nothing but the process's memory
\* belong to the step of the statement before them.

\* the commands one process runs before it ends
MaxCommands == 2

Procs == {"p1", "p2"}
\* a process uses one model for all its commands; A and C have one dimension
ProcModels == {"A", "C"}
ProcDocLists ==
    {<<[id |-> "d1", text |-> "t1", hash |-> "", metadata |-> NoMetadata]>>,
     <<[id |-> "d1", text |-> "t2", hash |-> "", metadata |-> NoMetadata]>>}
ProcQuery == "q2"

\* what is committed
Store == [documents |-> documents, meta |-> meta]
NoStore == [documents |-> <<>>, meta |-> <<>>]

NewProc(model) ==
    [model |-> model,        \* the model of its requests
     cache |-> <<>>,         \* its INDEX_CACHE
     n |-> 0,                \* commands started
     pc |-> "idle",          \* the statement it is at
     command |-> "none",
     docs |-> <<>>,          \* the documents of its upsert
     to_embed |-> <<>>,
     known |-> 0,            \* the tables in the schema its connection has
                             \* read, while it runs ensure_schema
     row |-> None,           \* what the SELECT of line 136 returned
     now |-> 0,              \* time.time() at line 222
     latest |-> 0,           \* the MAX(updated_at) it read
     count |-> 0,            \* the COUNT(*) it read
     resp |-> NoResponse,
     started |-> NoStore,    \* what was committed when its upsert began
     during |-> FALSE,       \* its stats began while another process was
                             \* inside an upsert that is still its latest
     quiet |-> TRUE]         \* no other process committed since it began

InitProcs ==
    /\ provider \in {"list", "ndarray"}
    /\ dirExists = FALSE
    /\ tables = FALSE
    /\ documents = <<>>
    /\ meta = <<>>
    /\ INDEX_CACHE = <<>>
    /\ MODEL_CACHE = {}
    /\ clock = 1
    /\ pc = "idle"
    /\ req = NoRequest
    /\ resp = NoResponse
    /\ calls = <<>>
    /\ before = EmptyWorld
    /\ procs \in [Procs -> {NewProc(model) : model \in ProcModels}]
    /\ other = UnopenedStore
    /\ file = NewFile

\* between the start of an upsert and its answer
InsideUpsert(q) ==
    /\ procs[q].command = "upsert"
    /\ procs[q].pc \notin {"idle", "done"}

\* the connection has executed a write statement and not yet committed:
\* inside ensure_model_meta, or after the INSERTs of lines 223-228
HoldsWriteLock(q) == procs[q].pc \in {"record_commit", "commit"}

\* the connection is switching the file to WAL, which takes the file for
\* itself
ConvertsToWal(q) == procs[q].pc = "wal"

ProcPayload(q) ==
    [indexPath |-> IndexPath, model |-> procs[q].model, query |-> ProcQuery,
     limit |-> None, minScore |-> None]

\* the first statement of a handler after ensure_schema
FirstStatement(command) ==
    CASE command = "upsert" -> "lookup"
      [] command = "search" -> "max"
      [] OTHER              -> "count"

\* main ends with the error the handler raised
Fails(rec, message) ==
    [rec EXCEPT !.pc = "done", !.known = 0, !.to_embed = <<>>, !.row = None,
                !.now = 0, !.resp = ErrorResponse(message)]

\* process q moves on without changing the store
Moves(q, next) ==
    /\ procs' = [procs EXCEPT ![q] = next]
    /\ UNCHANGED <<provider, dirExists, tables, documents, meta, INDEX_CACHE,
                   MODEL_CACHE, clock, pc, req, resp, calls, before, other, file>>

\* process q commits: the tables are now as given
Commits(q, next, committed) ==
    /\ procs' = [r \in Procs |->
                    IF r = q THEN next
                    ELSE [procs[r] EXCEPT !.quiet = @ /\ procs[r].pc = "idle"]]
    /\ documents' = committed.documents
    /\ meta' = committed.meta
    /\ UNCHANGED <<provider, dirExists, tables, INDEX_CACHE, MODEL_CACHE,
                   clock, pc, req, resp, calls, before, other, file>>

\* process q sets the database file up
SetsUp(q, next, set_up) ==
    /\ procs' = [procs EXCEPT ![q] = next]
    /\ file' = set_up
    /\ tables' = (set_up.created = 2)
    /\ UNCHANGED <<provider, dirExists, documents, meta, INDEX_CACHE,
                   MODEL_CACHE, clock, pc, req, resp, calls, before, other>>

\* a handler up to and including get_db_path (lines 84-86): the required
\* fields are there, get_model (not in stats) loads the process's model,
\* ensure_dir makes the directory.  On a file already in WAL mode and with
\* both tables, with_connection and ensure_schema change nothing and wait
\* for nothing, and the handler is at its first statement.
Starts(q, command, docs) ==
    /\ procs[q].pc = "idle"
    /\ procs[q].n < MaxCommands
    /\ procs' = [r \in Procs |->
                    IF r = q
                    THEN [procs[q] EXCEPT
                             !.n = @ + 1,
                             !.pc = IF file.wal /\ tables
                                    THEN FirstStatement(command) ELSE "connect",
                             !.command = command,
                             !.docs = docs,
                             !.started = IF command = "upsert" THEN Store ELSE NoStore,
                             !.during = /\ command = "stats"
                                        /\ \E w \in Procs \ {q} : InsideUpsert(w),
                             !.quiet = TRUE]
                    ELSE [procs[r] EXCEPT !.during = FALSE]]
    /\ dirExists' = TRUE
    /\ UNCHANGED <<provider, tables, documents, meta, INDEX_CACHE, MODEL_CACHE,
                   clock, pc, req, resp, calls, before, other, file>>

\* lines 90-91: connect and PRAGMA journal_mode=WAL.  The pragma reads the
\* schema, which the connection keeps.  On a file in WAL mode it changes
\* nothing; otherwise the connection starts to switch the file, which no
\* other connection may be doing
Connect ==
    \E q \in Procs :
        /\ procs[q].pc = "connect"
        /\ file.wal \/ ~ \E w \in Procs \ {q} : ConvertsToWal(w)
        /\ Moves(q, [procs[q] EXCEPT !.pc = IF file.wal THEN "schema" ELSE "wal",
                                     !.known = file.created])

\* line 91 while another connection is switching the file to WAL: the
\* pragma raises OperationalError (database is locked) without waiting
ConnectBusy ==
    \E q \in Procs :
        /\ procs[q].pc = "connect"
        /\ ~file.wal
        /\ \E w \in Procs \ {q} : ConvertsToWal(w)
        /\ Moves(q, Fails(procs[q], "database is locked"))

\* line 91 returns: the file is in WAL mode (lines 92-93 are the
\* connection's own settings)
ConvertedToWal ==
    \E q \in Procs :
        /\ procs[q].pc = "wal"
        /\ SetsUp(q, [procs[q] EXCEPT !.pc = "schema"], [file EXCEPT !.wal = TRUE])

\* the CREATE TABLE IF NOT EXISTS the process is at is compiled against
\* the schema its connection has read: for a table that schema lacks it is
\* a write, and asks for the write lock before it looks at the file again
CreateWrites(q) ==
    \/ procs[q].pc = "schema" /\ procs[q].known < 1
    \/ procs[q].pc = "schema_meta" /\ procs[q].known < 2

\* lines 98-106: CREATE TABLE IF NOT EXISTS documents, committed on its
\* own; running it, the connection reads the schema of the file again
CreateDocuments ==
    \E q \in Procs :
        /\ procs[q].pc = "schema"
        /\ CreateWrites(q) => ~ \E w \in Procs \ {q} : HoldsWriteLock(w)
        /\ LET created == IF file.created = 0 THEN 1 ELSE file.created
           IN SetsUp(q, [procs[q] EXCEPT !.pc = "schema_meta", !.known = created],
                     [file EXCEPT !.created = created])

\* lines 107-113: CREATE TABLE IF NOT EXISTS meta, committed on its own
CreateMeta ==
    \E q \in Procs :
        /\ procs[q].pc = "schema_meta"
        /\ CreateWrites(q) => ~ \E w \in Procs \ {q} : HoldsWriteLock(w)
        /\ SetsUp(q, [procs[q] EXCEPT !.pc = FirstStatement(procs[q].command),
                                      !.known = 0],
                  [file EXCEPT !.created = 2])

\* lines 98 or 107 for a table the connection's schema lacks, while
\* another connection is writing: when the connect timeout runs out the
\* statement raises OperationalError (database is locked)
CreateBusy ==
    \E q \in Procs :
        /\ CreateWrites(q)
        /\ \E w \in Procs \ {q} : HoldsWriteLock(w)
        /\ Moves(q, Fails(procs[q], "database is locked"))

\* lines 184-194
UpsertStart ==
    \E q \in Procs, docs \in ProcDocLists : Starts(q, "upsert", docs)

\* lines 199-213: the stored hashes are read, the changed documents kept
UpsertLookup ==
    \E q \in Procs :
        /\ procs[q].pc = "lookup"
        /\ LET to_embed == to_embed_of(documents, procs[q].docs, procs[q].model)
           IN IF to_embed = <<>>
              THEN Moves(q, [procs[q] EXCEPT !.pc = "done",
                                             !.resp = [status |-> "ok", updated |-> 0]])
              ELSE Moves(q, [procs[q] EXCEPT !.pc = "embed", !.to_embed = to_embed])

\* lines 215-219: encode runs and the dimension is taken; nothing is read
\* or written meanwhile
UpsertEmbed ==
    \E q \in Procs :
        /\ procs[q].pc = "embed"
        /\ LET to_embed == procs[q].to_embed
               texts == [i \in 1..Len(to_embed) |-> to_embed[i].text]
           IN IF truth_value_raises(provider, encode(procs[q].model, texts))
              THEN Moves(q, Fails(procs[q], "truth value of an array is ambiguous"))
              ELSE Moves(q, [procs[q] EXCEPT !.pc = "record"])

\* lines 136-137: ensure_model_meta reads the recorded model, in a
\* statement of its own
UpsertSelectModel ==
    \E q \in Procs :
        /\ procs[q].pc = "record"
        /\ Moves(q, [procs[q] EXCEPT !.pc = "record_write",
                                     !.row = RecordedModel(meta)])

\* lines 139, 147 or 153: the first write of the branch taken on what was
\* read opens a transaction and takes the write lock
UpsertWriteModel ==
    \E q \in Procs :
        /\ procs[q].pc = "record_write"
        /\ ~ \E w \in Procs \ {q} : HoldsWriteLock(w)
        /\ Moves(q, [procs[q] EXCEPT !.pc = "record_commit"])

\* lines 141, 150 or 154: the branch's writes are committed
UpsertRecordModel ==
    \E q \in Procs :
        /\ procs[q].pc = "record_commit"
        /\ Commits(q, [procs[q] EXCEPT !.pc = "time", !.row = None],
                   ensure_model_meta_after(documents, meta, procs[q].row,
                       procs[q].model,
                       Len(Vec(procs[q].model, procs[q].to_embed[1].text))))

\* line 222: now = time.time()
UpsertReadTime ==
    \E q \in Procs :
        /\ procs[q].pc = "time"
        /\ Moves(q, [procs[q] EXCEPT !.pc = "insert", !.now = clock])

\* lines 223-228: the rows are inserted in a transaction only this
\* connection sees; the first INSERT takes the write lock
UpsertInsertRows ==
    \E q \in Procs :
        /\ procs[q].pc = "insert"
        /\ ~ \E w \in Procs \ {q} : HoldsWriteLock(w)
        /\ Moves(q, [procs[q] EXCEPT !.pc = "commit"])

\* lines 230-233: the rows are committed and this process's entry evicted
UpsertCommit ==
    \E q \in Procs :
        /\ procs[q].pc = "commit"
        /\ LET to_embed == procs[q].to_embed
               texts == [i \in 1..Len(to_embed) |-> to_embed[i].text]
           IN Commits(q,
                  [procs[q] EXCEPT
                      !.pc = "done",
                      !.to_embed = <<>>,
                      !.now = 0,
                      !.cache = pop_index_cache(@, get_db_path_name(IndexPath)),
                      !.resp = [status |-> "ok", updated |-> Len(to_embed)]],
                  [documents |-> write_rows(documents, to_embed,
                                     encode(procs[q].model, texts), procs[q].now),
                   meta |-> meta])

\* a write statement waits for the connection that is writing; when the
\* connect timeout runs out it raises OperationalError (database is locked)
UpsertBusy ==
    \E q \in Procs :
        /\ procs[q].pc \in {"record_write", "insert"}
        /\ \E w \in Procs \ {q} : HoldsWriteLock(w)
        /\ Moves(q, Fails(procs[q], "database is locked"))

\* lines 270-281
SearchStart == \E q \in Procs : Starts(q, "search", <<>>)

\* lines 237-243 and, on a hit, 286-312: MAX(updated_at) is read; an entry
\* stamped with it is ranked at once
SearchReadMax ==
    \E q \in Procs :
        /\ procs[q].pc = "max"
        /\ LET latest == MaxUpdatedAt(documents)
               db_path == get_db_path_name(IndexPath)
           IN IF cache_hit(procs[q].cache, db_path, latest)
              THEN \E out \in rank(ProcPayload(q), EmptyWorld, procs[q].cache[db_path]) :
                       Moves(q, [procs[q] EXCEPT !.pc = "done", !.resp = out.resp])
              ELSE Moves(q, [procs[q] EXCEPT !.pc = "scan", !.latest = latest])

\* lines 245-266 and 286-312: the table is scanned by a second SELECT, the
\* entry stamped with the maximum read before, stored and ranked
SearchScan ==
    \E q \in Procs :
        /\ procs[q].pc = "scan"
        /\ LET db_path == get_db_path_name(IndexPath)
               cache_entry == [materialize(documents) EXCEPT !.version = procs[q].latest]
           IN \E out \in rank(ProcPayload(q), EmptyWorld, cache_entry) :
                  Moves(q, [procs[q] EXCEPT
                               !.pc = "done",
                               !.latest = 0,
                               !.cache = [k \in {db_path} |-> cache_entry],
                               !.resp = out.resp])

\* lines 316-321
StatsStart == \E q \in Procs : Starts(q, "stats", <<>>)

\* line 324: SELECT COUNT(*), MAX(updated_at) FROM documents
StatsReadCount ==
    \E q \in Procs :
        /\ procs[q].pc = "count"
        /\ Moves(q, [procs[q] EXCEPT !.pc = "meta",
                                     !.count = Len(documents),
                                     !.latest = MaxUpdatedAt(documents)])

\* lines 326-335: SELECT key, value FROM meta, a statement of its own
StatsReadMeta ==
    \E q \in Procs :
        /\ procs[q].pc = "meta"
        /\ Moves(q, [procs[q] EXCEPT
                        !.pc = "done",
                        !.count = 0,
                        !.latest = 0,
                        !.resp = [status |-> "ok",
                                  documents |-> procs[q].count,
                                  last_updated |-> IF procs[q].count = 0 THEN None
                                                   ELSE Some(procs[q].latest),
                                  model |-> RecordedModel(meta),
                                  dimension |-> IF "dimension" \in DOMAIN meta
                                                THEN Some(meta["dimension"]) ELSE None,
                                  indexPath |-> IndexPath]])

\* main returns in process q
ProcReturn ==
    \E q \in Procs :
        /\ procs[q].pc = "done"
        /\ Moves(q, [procs[q] EXCEPT !.pc = "idle",
                                     !.command = "none",
                                     !.docs = <<>>,
                                     !.resp = NoResponse,
                                     !.started = NoStore,
                                     !.during = FALSE,
                                     !.quiet = TRUE])

NextProcs ==
    \/ UpsertStart
    \/ SearchStart
    \/ StatsStart
    \/ Connect
    \/ ConnectBusy
    \/ ConvertedToWal
    \/ CreateDocuments
    \/ CreateMeta
    \/ CreateBusy
    \/ UpsertLookup
    \/ UpsertEmbed
    \/ UpsertSelectModel
    \/ UpsertWriteModel
    \/ UpsertRecordModel
    \/ UpsertReadTime
    \/ UpsertInsertRows
    \/ UpsertCommit
    \/ UpsertBusy
    \/ SearchReadMax
    \/ SearchScan
    \/ StatsReadCount
    \/ StatsReadMeta
    \/ ProcReturn
    \/ Tick

SpecProcs == InitProcs /\ [][NextProcs]_vars

\* ------------------------------------------------ one process, two stores
\* The process of Spec serving requests for two index paths: the store of
\* the variables above at IndexPath and the store `other` at OtherPath.
\* INDEX_CACHE and MODEL_CACHE are the process's, shared by both.

OtherPath == "idy"
StorePaths == {IndexPath, OtherPath}

\* the store a connection to get_db_path(index_path) works on, with the caches
WorldAt(index_path) ==
    IF index_path = IndexPath THEN World
    ELSE [dirExists |-> other.dirExists, tables |-> other.tables,
          documents |-> other.documents, meta |-> other.meta,
          INDEX_CACHE |-> INDEX_CACHE, MODEL_CACHE |-> MODEL_CACHE]

InitStores ==
    /\ provider = "list"
    /\ dirExists = FALSE
    /\ tables = FALSE
    /\ documents = <<>>
    /\ meta = <<>>
    /\ INDEX_CACHE = <<>>
    /\ MODEL_CACHE = {}
    /\ clock = 1
    /\ pc = "idle"
    /\ req = NoRequest
    /\ resp = NoResponse
    /\ calls = <<>>
    /\ before = EmptyWorld
    /\ procs = NoProcs
    /\ other = UnopenedStore
    /\ file = NewFile

\* main for a request on the store at index_path: the handler's effects on
\* that store's file and on the caches are in place
main_at(index_path, command, payload, out) ==
    /\ pc' = "printed"
    /\ req' = [command |-> command, payload |-> payload]
    /\ IF index_path = IndexPath
       THEN /\ dirExists' = out.w.dirExists
            /\ tables' = out.w.tables
            /\ documents' = out.w.documents
            /\ meta' = out.w.meta
            /\ other' = other
       ELSE /\ other' = [dirExists |-> out.w.dirExists, tables |-> out.w.tables,
                         documents |-> out.w.documents, meta |-> out.w.meta]
            /\ UNCHANGED <<dirExists, tables, documents, meta>>
    /\ INDEX_CACHE' = out.w.INDEX_CACHE
    /\ MODEL_CACHE' = out.w.MODEL_CACHE
    /\ resp' = out.resp
    /\ calls' = out.calls
    /\ before' = WorldAt(index_path)
    /\ UNCHANGED <<provider, clock, procs, file>>

StoreUpsert ==
    /\ pc = "idle"
    /\ \E index_path \in StorePaths, docs \in ProcDocLists :
           LET payload == [indexPath |-> index_path, model |-> "A",
                           documents |-> docs, batchSize |-> NoBatchSize]
           IN \E out \in {command_upsert(payload, WorldAt(index_path), provider, clock)} :
                  main_at(index_path, "upsert", payload, out)

StoreSearch ==
    /\ pc = "idle"
    /\ \E index_path \in StorePaths :
           LET payload == [indexPath |-> index_path, model |-> "A", query |-> ProcQuery,
                           limit |-> None, minScore |-> None]
           IN \E out \in command_search(payload, WorldAt(index_path), provider) :
                  main_at(index_path, "search", payload, out)

NextStores ==
    \/ StoreUpsert
    \/ StoreSearch
    \/ Return
    \/ Tick

SpecStores == InitStores /\ [][NextStores]_vars

\* ===================================================================
\* Properties
\* ===================================================================
Handled(command) == pc = "printed" /\ req.command = command

ValidStore == req.payload.indexPath # "" /\ req.payload.model # ""

Ok(n) == [status |-> "ok", updated |-> n]

DbPath == get_db_path_name(IndexPath)

\* the incoming document's content hash differs from the one stored for its id
Changed(table, doc, model) ==
    ~ \E i \in 1..Len(table) :
          /\ table[i].id = doc.id
          /\ table[i].content_hash =
                 (IF doc.hash # "" THEN doc.hash ELSE model \o "|" \o doc.text)

\* the texts of the incoming documents that are Changed, in payload order
RECURSIVE ChangedTexts(_, _, _)
ChangedTexts(table, incoming, model) ==
    IF incoming = <<>> THEN <<>>
    ELSE (IF Changed(table, Head(incoming), model)
          THEN <<Head(incoming).text>> ELSE <<>>)
         \o ChangedTexts(table, Tail(incoming), model)

\* the score of a stored row for the query of the search in req
ScoreOf(row) ==
    Dot(deserialize_vector(row.vector), Vec(req.payload.model, req.payload.query))

ResultIds == {resp.results[k].id : k \in 1..Len(resp.results)}

\* C1: upserting one document (id, text) without a caller-supplied hash
\* under model m returns updated = 1 when the store has no row for id or a
\* row with another content hash, and leaves the row with the hash of
\* (m, text); upserting it when the row already has that hash (the
\* immediately following upsert) returns updated = 0 and leaves the row
\* (hash, metadata, vector, updated_at) as it was.
C1_IdempotentUpsert ==
    (/\ Handled("upsert")
     /\ ValidStore
     /\ provider # "missing"
     /\ Len(req.payload.documents) = 1
     /\ req.payload.documents[1].hash = "")
    => LET doc == req.payload.documents[1]
           h == req.payload.model \o "|" \o doc.text
       IN IF Changed(before.documents, doc, req.payload.model)
          THEN /\ resp = Ok(1)
               /\ HasRow(documents, doc.id)
               /\ RowOf(documents, doc.id).content_hash = h
          ELSE /\ resp = Ok(0)
               /\ RowOf(documents, doc.id) = RowOf(before.documents, doc.id)

\* C2: the response of every search is a response the same search gives
\* with the index cache discarded first, that is, when it ranks against the
\* rows in the documents table at that moment.
C2_CacheCoherence ==
    Handled("search")
    => resp \in {o.resp : o \in command_search(
                     req.payload, [before EXCEPT !.INDEX_CACHE = <<>>], provider)}

\* a search was answered from the cache entry it found (a hit), and the
\* entry holds both rows of a store that was written at two different times
W2_SearchFromCache ==
    /\ Handled("search")
    /\ resp.status = "ok"
    /\ Len(resp.results) = 2
    /\ DbPath \in DOMAIN before.INDEX_CACHE
    /\ INDEX_CACHE = before.INDEX_CACHE
    /\ \E i, j \in 1..Len(documents) :
           documents[i].updated_at = 1 /\ documents[j].updated_at = 2

\* C3: when the recorded model is A and an upsert under another model B
\* embeds at least one document and completes, the documents table holds
\* exactly the documents that upsert embedded (every row written by it) and
\* stats reports model B.
C3_ModelSwitchResets ==
    (/\ Handled("upsert")
     /\ ValidStore
     /\ RecordedModel(before.meta) # None
     /\ RecordedModel(before.meta) # Some(req.payload.model)
     /\ resp.status = "ok"
     /\ resp.updated >= 1)
    => /\ IdsOf(documents) =
              {req.payload.documents[i].id : i \in
                  {j \in 1..Len(req.payload.documents) :
                      Changed(before.documents, req.payload.documents[j],
                              req.payload.model)}}
       /\ \A i \in 1..Len(documents) : documents[i].updated_at = clock
       /\ command_stats(req.payload, World).resp.model = Some(req.payload.model)

\* an upsert of one document under B completed on a store that held two
\* rows recorded under A
W3_SwitchedModel ==
    /\ Handled("upsert")
    /\ RecordedModel(before.meta) = Some("A")
    /\ Len(before.documents) = 2
    /\ req.payload.model = "B"
    /\ resp = Ok(1)

\* C4: an upsert that ends in an error leaves the documents table and the
\* model descriptor as they were.
C4_AtomicBatchWrite ==
    (Handled("upsert") /\ resp.status = "error")
    => (documents = before.documents /\ meta = before.meta)

\* C5: the results of a search are in non-increasing order of score, and
\* the score of each result is the dot product of the query vector with the
\* vector stored for that document.
C5_RankingOrder ==
    (Handled("search") /\ resp.status = "ok")
    => /\ \A i, j \in 1..Len(resp.results) :
              i < j => resp.results[i].score >= resp.results[j].score
       /\ \A k \in 1..Len(resp.results) :
              /\ HasRow(documents, resp.results[k].id)
              /\ resp.results[k].score = ScoreOf(RowOf(documents, resp.results[k].id))

\* a search returned two results of different scores, the higher one for
\* the row that is scanned last
W5_RankedTwo ==
    /\ Handled("search")
    /\ resp.status = "ok"
    /\ Len(resp.results) = 2
    /\ resp.results[1].score > resp.results[2].score
    /\ documents[2].id = resp.results[1].id

\* what the request asks for: minScore, 0 when absent, and limit, 8 when absent
AskedMinScore == IF req.payload.minScore = None THEN 0 ELSE req.payload.minScore[1]
AskedLimit == IF req.payload.limit = None THEN 8 ELSE req.payload.limit[1]

\* C6: no result of a search scores below minScore (0 when absent), and a
\* document scoring at least minScore is left out only when at least
\* `limit` results scoring no less than it were returned.
C6_MinScoreFilter ==
    (Handled("search") /\ resp.status = "ok")
    => /\ \A k \in 1..Len(resp.results) : resp.results[k].score >= AskedMinScore
       /\ \A i \in 1..Len(documents) :
              (ScoreOf(documents[i]) >= AskedMinScore /\ documents[i].id \notin ResultIds)
              => Cardinality({k \in 1..Len(resp.results) :
                                 resp.results[k].score >= ScoreOf(documents[i])})
                     >= AskedLimit

\* a search with minScore = 1 left out a document scoring below 1 and
\* returned one scoring 1
W6_DroppedByMinScore ==
    /\ Handled("search")
    /\ resp.status = "ok"
    /\ req.payload.minScore = Some(1)
    /\ Len(resp.results) = 1
    /\ \E i \in 1..Len(documents) :
           ScoreOf(documents[i]) < 1 /\ documents[i].id \notin ResultIds

\* the documents of the store that score at least 0, the default minScore
NonNegative == {i \in 1..Len(documents) : ScoreOf(documents[i]) >= 0}

Min(a, b) == IF a <= b THEN a ELSE b

\* the results are distinct documents of the store and no document left
\* out scores higher than a returned one
HighestScoring ==
    /\ Cardinality(ResultIds) = Len(resp.results)
    /\ \A k \in 1..Len(resp.results) :
           /\ HasRow(documents, resp.results[k].id)
           /\ resp.results[k].score = ScoreOf(RowOf(documents, resp.results[k].id))
           /\ \A i \in 1..Len(documents) :
                  documents[i].id \notin ResultIds
                  => ScoreOf(documents[i]) <= resp.results[k].score

\* a completed search with limit = k, 1 <= k <= N, and no minScore, on a
\* store of N documents
LimitCase ==
    /\ Handled("search")
    /\ resp.status = "ok"
    /\ req.payload.minScore = None
    /\ req.payload.limit # None
    /\ req.payload.limit[1] >= 1
    /\ req.payload.limit[1] <= Len(documents)

\* C7 as stated: a search with limit = k, 1 <= k <= N, and no minScore on
\* a store of N documents returns exactly k results, the k highest-scoring
\* documents of the store.
X7_ExactlyLimitResults ==
    LimitCase => (Len(resp.results) = req.payload.limit[1] /\ HighestScoring)

\* C7 (amended): a search with limit = k, 1 <= k <= N, and no minScore on
\* a store of N documents returns exactly min(k, P) results, P being the
\* number of documents that score at least 0, and they are the
\* highest-scoring documents of the store.
C7_LimitTruncation ==
    LimitCase
    => (Len(resp.results) = Min(req.payload.limit[1], Cardinality(NonNegative))
        /\ HighestScoring)

\* a search with limit = 1 returned the higher of two documents that both
\* score at least 0, the one scanned last
W7_Truncated ==
    /\ LimitCase
    /\ req.payload.limit = Some(1)
    /\ Len(documents) = 2
    /\ Cardinality(NonNegative) = 2
    /\ ScoreOf(documents[1]) < ScoreOf(documents[2])
    /\ Len(resp.results) = 1

\* C8: with the embedding capability installed, a search with indexPath,
\* model and query on a store without documents (also one that did not
\* exist) returns {status: ok, results: []} and leaves the table empty.
C8_EmptyStore ==
    (/\ Handled("search")
     /\ ValidStore
     /\ req.payload.query # ""
     /\ provider # "missing"
     /\ before.documents = <<>>)
    => (resp = [status |-> "ok", results |-> <<>>] /\ documents = <<>>)

\* a search was answered on a store that did not exist before it
W8_SearchedNewStore ==
    /\ Handled("search")
    /\ ValidStore
    /\ req.payload.query # ""
    /\ ~before.dirExists
    /\ ~before.tables
    /\ tables
    /\ resp = [status |-> "ok", results |-> <<>>]

\* C9: an upsert calls encode at most once, on exactly the texts of the
\* incoming documents whose content hash differs from the stored one, and
\* when every incoming document is unchanged it neither calls the provider
\* nor loads it.
X9_EmbedOnlyChanged ==
    (Handled("upsert") /\ ValidStore)
    => /\ Len(calls) <= 1
       /\ \A c \in 1..Len(calls) :
              calls[c].texts = ChangedTexts(before.documents, req.payload.documents,
                                            req.payload.model)
       /\ ChangedTexts(before.documents, req.payload.documents, req.payload.model) = <<>>
              => (calls = <<>> /\ MODEL_CACHE = before.MODEL_CACHE)

\* C10: an upsert with indexPath and model and an empty documents list
\* returns {status: ok, updated: 0}; the directory, the database, the
\* tables, the descriptor and both caches are as before, and encode is
\* not called.
C10_EmptyInput ==
    (Handled("upsert") /\ ValidStore /\ req.payload.documents = <<>>)
    => (resp = Ok(0) /\ World = before /\ calls = <<>>)

\* an upsert of no documents was answered and there is still no directory
W10_NothingCreated ==
    /\ Handled("upsert")
    /\ ValidStore
    /\ req.payload.documents = <<>>
    /\ resp = Ok(0)
    /\ ~dirExists

\* C12: without the embedding capability, an upsert of at least one
\* document and a search end with {status: error, error: message}, and the
\* documents table, the model descriptor and the index cache are as before.
C12_ProviderUnavailable ==
    (/\ provider = "missing"
     /\ \/ Handled("upsert") /\ req.payload.documents # <<>>
        \/ Handled("search"))
    => /\ resp.status = "error"
       /\ DOMAIN resp = {"status", "error"}
       /\ documents = before.documents
       /\ meta = before.meta
       /\ INDEX_CACHE = before.INDEX_CACHE

\* an upsert of a new document was refused for want of the provider on a
\* store that holds a row and a descriptor written while it was installed
W12_RefusedOnPopulatedStore ==
    /\ Handled("upsert")
    /\ provider = "missing"
    /\ ValidStore
    /\ Len(documents) = 1
    /\ meta # <<>>
    /\ \E i \in 1..Len(req.payload.documents) :
           req.payload.documents[i].id \notin IdsOf(documents)
    /\ resp = ErrorResponse("sentence-transformers missing")

\* the request in req lacks indexPath or model, or is a search without query
LacksRequiredField ==
    \/ req.payload.indexPath = ""
    \/ req.payload.model = ""
    \/ req.command = "search" /\ req.payload.query = ""

\* C13: status, upsert, search and stats with a missing or empty indexPath
\* or model, and search with a missing or empty query, return {status:
\* error, error: ...} and change nothing: directory, database, rows,
\* descriptor and both caches are as before, and encode is not called.
C13_InputErrorsNoSideEffects ==
    (pc = "printed" /\ req.command \in COMMANDS /\ LacksRequiredField)
    => /\ resp.status = "error"
       /\ DOMAIN resp = {"status", "error"}
       /\ World = before
       /\ calls = <<>>

\* a search without query was refused in a process that has the provider
\* installed but not loaded, and there is still no directory
W13_RefusedSearch ==
    /\ Handled("search")
    /\ req.payload.indexPath # ""
    /\ req.payload.model # ""
    /\ req.payload.query = ""
    /\ provider = "list"
    /\ resp.status = "error"
    /\ MODEL_CACHE = {}
    /\ ~dirExists

\* position k holds the last occurrence of its id in the incoming list
IsLastOccurrence(incoming, k) ==
    \A j \in (k + 1)..Len(incoming) : incoming[j].id # incoming[k].id

\* C14: after a completed upsert the documents table holds at most one row
\* per id, and the row of every id of the batch carries the content hash of
\* the id's last occurrence in the list.
X14_LastWriteWins ==
    (Handled("upsert") /\ ValidStore /\ resp.status = "ok")
    => /\ \A i, j \in 1..Len(documents) :
              documents[i].id = documents[j].id => i = j
       /\ \A k \in 1..Len(req.payload.documents) :
              IsLastOccurrence(req.payload.documents, k)
              => /\ HasRow(documents, req.payload.documents[k].id)
                 /\ RowOf(documents, req.payload.documents[k].id).content_hash
                        = (IF req.payload.documents[k].hash # ""
                           THEN req.payload.documents[k].hash
                           ELSE req.payload.model \o "|" \o req.payload.documents[k].text)

\* C17: status with indexPath and model returns {status: ok} whatever
\* model is recorded, leaves the documents table, the descriptor and the
\* index cache as they were, and a second status call leaves the whole
\* state as the first did.
C17_StatusIdempotent ==
    (Handled("status") /\ ValidStore)
    => /\ resp = [status |-> "ok", indexPath |-> req.payload.indexPath,
                  model |-> req.payload.model]
       /\ documents = before.documents
       /\ meta = before.meta
       /\ INDEX_CACHE = before.INDEX_CACHE
       /\ \A model \in Models :
              /\ command_status([req.payload EXCEPT !.model = model], World).w = World
              /\ command_status([req.payload EXCEPT !.model = model], World).resp.status = "ok"

\* status was answered for model B on a store recorded under model A that
\* holds a document and has a cache entry
W17_StatusOtherModel ==
    /\ Handled("status")
    /\ req.payload.indexPath # ""
    /\ req.payload.model = "B"
    /\ RecordedModel(meta) = Some("A")
    /\ documents # <<>>
    /\ DbPath \in DOMAIN INDEX_CACHE
    /\ resp.status = "ok"

\* C15: every run of main ends with main having printed one response
\* whose status is ok or error; no exception leaves main; a missing or
\* unknown command is answered with an error and no handler runs (nothing
\* changes, no encode call).
X15_StructuredResponses ==
    pc # "idle"
    => /\ pc = "printed"
       /\ resp.status \in {"ok", "error"}
       /\ req.command \notin COMMANDS
              => (resp.status = "error" /\ World = before /\ calls = <<>>)

\* C18: a stats call changes no document row and not the descriptor, and
\* creates, replaces or removes no index-cache entry, whatever model the
\* request names.
C18_StatsReadOnly ==
    Handled("stats")
    => /\ documents = before.documents
       /\ meta = before.meta
       /\ INDEX_CACHE = before.INDEX_CACHE
       /\ MODEL_CACHE = before.MODEL_CACHE

\* stats was answered for a model other than the recorded one on a store
\* that holds a document and has no cache entry
W18_StatsWithoutCacheEntry ==
    /\ Handled("stats")
    /\ ValidStore
    /\ resp.status = "ok"
    /\ documents # <<>>
    /\ RecordedModel(meta) # Some(req.payload.model)
    /\ DbPath \notin DOMAIN INDEX_CACHE

\* the largest updated_at of a non-empty table
LatestOf(table) ==
    CHOOSE t \in {table[i].updated_at : i \in 1..Len(table)} :
        \A i \in 1..Len(table) : table[i].updated_at <= t

\* the upsert in req got as far as recording its model: it embedded and
\* then completed, or failed at an INSERT
RecordedItsModel ==
    /\ Handled("upsert")
    /\ \/ resp.status = "ok" /\ resp.updated >= 1
       \/ resp = ErrorResponse("Error binding parameter")

\* C19: stats reports documents = the number of rows, last_updated = the
\* largest updated_at (null without rows), and model and dimension as in
\* the descriptor (null when there is none), whatever model the request
\* names; and the descriptor holds the model and dimension of the last
\* upsert that embedded and recorded them: such an upsert leaves its own,
\* every other command leaves the descriptor alone.
C19_StatsValues ==
    /\ (Handled("stats") /\ ValidStore)
       => /\ resp = [status |-> "ok",
                     documents |-> Len(before.documents),
                     last_updated |-> IF before.documents = <<>> THEN None
                                      ELSE Some(LatestOf(before.documents)),
                     model |-> IF before.meta = <<>> THEN None
                               ELSE Some(before.meta["model"]),
                     dimension |-> IF before.meta = <<>> THEN None
                                   ELSE Some(before.meta["dimension"]),
                     indexPath |-> req.payload.indexPath]
          /\ \A model \in Models :
                 command_stats([req.payload EXCEPT !.model = model], before).resp = resp
    /\ pc = "printed"
       => IF RecordedItsModel
          THEN meta = [k \in {"model", "dimension"} |->
                          IF k = "model" THEN req.payload.model
                          ELSE IF req.payload.model = "A" THEN "2" ELSE "3"]
          ELSE meta = before.meta

\* stats named model B on a store recorded under A, dimension 2, whose two
\* rows were written at different times
W19_StatsOfTwoWrites ==
    /\ Handled("stats")
    /\ req.payload.model = "B"
    /\ resp.status = "ok"
    /\ resp.documents = 2
    /\ documents[1].updated_at = 1
    /\ documents[2].updated_at = 2
    /\ resp.last_updated = Some(2)
    /\ resp.model = Some("A")
    /\ resp.dimension = Some("2")

\* C20: the cache entry a search got from load_index_cache has the
\* version MAX(updated_at) of the table (0 when empty); an entry found
\* with that version is the one returned, and an entry found with another
\* version (or none) is replaced under the store's key by one built from a
\* scan of the table.
C20_CacheValidity ==
    (/\ Handled("search")
     /\ ~LacksRequiredField
     /\ provider # "missing")
    => /\ DbPath \in DOMAIN INDEX_CACHE
       /\ INDEX_CACHE[DbPath].version =
              (IF documents = <<>> THEN 0 ELSE LatestOf(documents))
       /\ IF /\ DbPath \in DOMAIN before.INDEX_CACHE
             /\ before.INDEX_CACHE[DbPath].version = INDEX_CACHE[DbPath].version
          THEN INDEX_CACHE = before.INDEX_CACHE
          ELSE /\ INDEX_CACHE[DbPath].rows =
                      [i \in 1..Len(documents) |->
                          <<documents[i].id, parse_metadata(documents[i].metadata)>>]
               /\ INDEX_CACHE[DbPath].matrix =
                      [i \in 1..Len(documents) |->
                          deserialize_vector(documents[i].vector)]

\* a search found an entry stamped with a version other than the table's
\* MAX(updated_at) and left a rebuilt entry in its place
W20_StaleEntryReplaced ==
    /\ Handled("search")
    /\ resp.status = "ok"
    /\ DbPath \in DOMAIN before.INDEX_CACHE
    /\ before.INDEX_CACHE[DbPath].version # MaxUpdatedAt(documents)
    /\ INDEX_CACHE[DbPath].version = MaxUpdatedAt(documents)
    /\ INDEX_CACHE[DbPath].rows # before.INDEX_CACHE[DbPath].rows

\* the position of id's row in the cache entry the search in req used
CachedPosition(id) ==
    CHOOSE i \in 1..Len(INDEX_CACHE[DbPath].rows) : INDEX_CACHE[DbPath].rows[i][1] = id

\* C24: results of equal score come in the order in which their rows were
\* materialized in the cache entry, the earlier cached row first.
X24_TieOrder ==
    (Handled("search") /\ resp.status = "ok")
    => \A i, j \in 1..Len(resp.results) :
           (i < j /\ resp.results[i].score = resp.results[j].score)
           => CachedPosition(resp.results[i].id) < CachedPosition(resp.results[j].id)

\* the model under which a row's vector was embedded agrees with the
\* descriptor: the vector is encode's for a text under the recorded model
\* and has the recorded dimension
EmbeddedUnderRecordedModel(row) ==
    /\ row.vector \in {serialize_vector(Vec(meta["model"], text)) : text \in Texts}
    /\ str(Len(deserialize_vector(row.vector))) = meta["dimension"]

\* C25: in every state a single process leaves behind, after successful
\* and failed operations alike, a non-empty documents table comes with a
\* descriptor, every row was embedded under the descriptor's model and
\* every vector has the descriptor's dimension.
C25_StoreMatchesDescriptor ==
    documents # <<>>
    => /\ DOMAIN meta = {"model", "dimension"}
       /\ \A i \in 1..Len(documents) : EmbeddedUnderRecordedModel(documents[i])

\* an upsert under B failed at an INSERT on a store that held rows under
\* A, and a later upsert under B completed: the table has a row again
W25_RowsAfterFailedSwitch ==
    /\ Handled("upsert")
    /\ before.documents = <<>>
    /\ before.meta # <<>>
    /\ before.meta["model"] = "B"
    /\ req.payload.model = "A"
    /\ resp = Ok(2)
    /\ Len(documents) = 2

\* C27: an upsert that inserted, replaced or deleted a document row ends,
\* with success or with an error, with no entry for the store in this
\* process's INDEX_CACHE.
X27_EvictionOnMutation ==
    (Handled("upsert") /\ documents # before.documents)
    => DbPath \notin DOMAIN INDEX_CACHE

\* C28: after a search, the next search on the store in the same process,
\* with no write in between, finds the entry stamped with the table's
\* MAX(updated_at) and returns it from the cache (no scan), and leaves
\* INDEX_CACHE holding that very entry, whichever query it asks.
C28_CacheReuse ==
    (Handled("search") /\ ~LacksRequiredField /\ provider # "missing")
    => /\ cache_hit(INDEX_CACHE, DbPath, MaxUpdatedAt(documents))
       /\ \A query \in Queries :
              \A out \in command_search([req.payload EXCEPT !.query = query],
                                         World, provider) :
                  /\ out.w.INDEX_CACHE = INDEX_CACHE
                  /\ out.w.documents = documents

\* a search that found no entry built one over a table of two rows
W28_EntryBuilt ==
    /\ Handled("search")
    /\ resp.status = "ok"
    /\ DbPath \notin DOMAIN before.INDEX_CACHE
    /\ DbPath \in DOMAIN INDEX_CACHE
    /\ Len(INDEX_CACHE[DbPath].rows) = 2

\* C29: an upsert that returns updated = 0 leaves every document row, the
\* descriptor and the index cache as they were, also when its model is
\* not the recorded one.
C29_NoOpUpsert ==
    (Handled("upsert") /\ resp = Ok(0))
    => /\ documents = before.documents
       /\ meta = before.meta
       /\ INDEX_CACHE = before.INDEX_CACHE

\* an upsert under B returned updated = 0 on a store recorded under A,
\* its document matching through the hash the caller supplied, in a
\* process that has a cache entry for the store
W29_NoOpUnderOtherModel ==
    /\ Handled("upsert")
    /\ resp = Ok(0)
    /\ req.payload.model = "B"
    /\ req.payload.documents # <<>>
    /\ RecordedModel(meta) = Some("A")
    /\ DbPath \in DOMAIN INDEX_CACHE

\* C30: after a successful upsert every id of the request has a row in
\* the documents table.
X30_RequestedDocumentsStored ==
    (Handled("upsert") /\ ValidStore /\ resp.status = "ok")
    => \A k \in 1..Len(req.payload.documents) :
           HasRow(documents, req.payload.documents[k].id)

\* ===================================================================
\* Properties of the pure functions (SpecPure)
\* ===================================================================
Called(function) == pc = "returned" /\ req.command = function

\* C11: compute_hash gives the same digest input for the same (model,
\* text), and for every other pair (model2, text2), differing in the model
\* or in the text, the bytes it hashes differ from those of (model, text).
X11_HashIdentifiesPair ==
    Called("compute_hash")
    => /\ resp = Returned(compute_hash(req.payload.text, req.payload.model))
       /\ \A model2 \in HashModels, text2 \in HashTexts :
              (model2 # req.payload.model \/ text2 # req.payload.text)
              => compute_hash(text2, model2) # resp.value

\* C16: validate_batch_size never raises and returns an integer in
\* [1, 128]: 8 for None and for a value int() cannot read, 1 for an integer
\* below 1, 128 for one above 128, the integer itself otherwise.
X16_BatchSizeClamped ==
    Called("validate_batch_size")
    => /\ ~resp.raises
       /\ resp.value \in 1..MAX_BATCH_SIZE
       /\ resp.value =
              (CASE req.payload.kind = "none" -> DEFAULT_BATCH_SIZE
                 [] req.payload.kind = "int" ->
                      (IF req.payload.value < 1 THEN 1
                       ELSE IF req.payload.value > MAX_BATCH_SIZE THEN MAX_BATCH_SIZE
                       ELSE req.payload.value)
                 [] OTHER -> DEFAULT_BATCH_SIZE)

\* the texts json.loads reads as an object
JsonObjects == {"{}", "{\"k\": \"v\"}"}

\* the call of load_index_cache in req found no entry with the table's
\* version and scanned the table
Rebuilt ==
    /\ Called("load_index_cache")
    /\ ~cache_hit(before.INDEX_CACHE, get_db_path_name(IndexPath),
                  MaxUpdatedAt(req.payload))

\* C32: a rebuild by load_index_cache completes on every table, whatever
\* text the metadata column holds; the entry has every row, a row whose
\* text is not valid JSON has the metadata {"raw": text}, a NULL or empty
\* text gives {}.
X32_CorruptMetadataTolerated ==
    Rebuilt
    => /\ ~resp.raises
       /\ Len(resp.value.rows) = Len(req.payload)
       /\ Len(resp.value.matrix) = Len(req.payload)
       /\ \A i \in 1..Len(req.payload) :
              /\ resp.value.rows[i][1] = req.payload[i].id
              /\ req.payload[i].metadata = "" => resp.value.rows[i][2] = {}
              /\ req.payload[i].metadata \notin (JsonObjects \cup {""})
                     => resp.value.rows[i][2] = {<<"raw", req.payload[i].metadata>>}

\* ----------------------------------------- further properties of Spec

Max(a, b) == IF a >= b THEN a ELSE b

\* C31: a search given an integer limit, 0 and negative values included,
\* returns at most max(limit, 0) results.
X31_LimitIsUpperBound ==
    (Handled("search") /\ resp.status = "ok" /\ req.payload.limit # None)
    => Len(resp.results) <= Max(req.payload.limit[1], 0)

\* a completed upsert that answered ok
UpsertDone == Handled("upsert") /\ resp.status = "ok"

\* the positions of the request's documents whose content hash differs
\* from the hash stored for their id before the request
ChangedPositions ==
    {i \in 1..Len(req.payload.documents) :
        Changed(before.documents, req.payload.documents[i], req.payload.model)}

ChangedIds == {req.payload.documents[i].id : i \in ChangedPositions}

\* the rows of the table that were not there before the request
NewRows ==
    {documents[i] : i \in 1..Len(documents)}
    \ {before.documents[i] : i \in 1..Len(before.documents)}

\* C35 as stated: updated is the number of rows of the table the upsert
\* inserted or replaced, which is the number of requested documents whose
\* content hash differed from the stored one.
X35_UpdatedCountsRows ==
    UpsertDone
    => /\ resp.updated = Cardinality(NewRows)
       /\ resp.updated = Cardinality(ChangedPositions)

\* C35 (amended): updated is the number of requested documents, counted
\* with repetition, whose content hash differed from the hash stored before
\* the request; each of them was written by one INSERT OR REPLACE, so the
\* table's new rows are one per distinct id among them, and updated is the
\* number of new rows when no id is repeated among them.
C35_UpdatedCountsWrites ==
    UpsertDone
    => /\ resp.updated = Cardinality(ChangedPositions)
       /\ {row.id : row \in NewRows} = ChangedIds
       /\ Cardinality(NewRows) = Cardinality(ChangedIds)
       /\ Cardinality(ChangedIds) = Cardinality(ChangedPositions)
              => resp.updated = Cardinality(NewRows)

\* an upsert of two changed documents for one id: updated = 2, one new row
W35_TwoWritesOneRow ==
    /\ UpsertDone
    /\ resp.updated = 2
    /\ Cardinality(ChangedPositions) = 2
    /\ Cardinality(NewRows) = 1

\* the search in req stored an entry for its store
BuiltEntry ==
    /\ Handled("search")
    /\ DbPath \in DOMAIN INDEX_CACHE
    /\ \/ DbPath \notin DOMAIN before.INDEX_CACHE
       \/ INDEX_CACHE[DbPath] # before.INDEX_CACHE[DbPath]

\* C36: every entry of INDEX_CACHE has as many matrix rows as (id,
\* metadata) rows; in the entry a search has just built, row i is the id
\* of the table's i-th document and matrix row i its stored vector, and an
\* empty table gives no rows and a matrix without rows.
C36_EntryRowAligned ==
    /\ \A k \in DOMAIN INDEX_CACHE :
           Len(INDEX_CACHE[k].rows) = Len(INDEX_CACHE[k].matrix)
    /\ BuiltEntry
       => /\ Len(INDEX_CACHE[DbPath].rows) = Len(documents)
          /\ \A i \in 1..Len(documents) :
                 /\ INDEX_CACHE[DbPath].rows[i][1] = documents[i].id
                 /\ INDEX_CACHE[DbPath].matrix[i] = deserialize_vector(documents[i].vector)

\* a search built an entry of two documents with different vectors
W36_BuiltTwoRows ==
    /\ BuiltEntry
    /\ Len(INDEX_CACHE[DbPath].rows) = 2
    /\ INDEX_CACHE[DbPath].matrix[1] # INDEX_CACHE[DbPath].matrix[2]

\* ------------------------------------------------ properties of SpecProcs

\* what stats answers when both its statements read the given store
StatsOf(store) ==
    [status |-> "ok",
     documents |-> Len(store.documents),
     last_updated |-> IF store.documents = <<>> THEN None
                      ELSE Some(MaxUpdatedAt(store.documents)),
     model |-> RecordedModel(store.meta),
     dimension |-> IF "dimension" \in DOMAIN store.meta
                   THEN Some(store.meta["dimension"]) ELSE None,
     indexPath |-> IndexPath]

\* process q has answered a search that ran with no commit by another process
AnsweredQuietSearch(q) ==
    /\ procs[q].command = "search"
    /\ procs[q].pc = "done"
    /\ procs[q].quiet
    /\ procs[q].resp.status = "ok"

\* the answers of a search of process q that ranks the committed documents
FreshAnswers(q) ==
    {out.resp : out \in rank(ProcPayload(q), EmptyWorld, materialize(documents))}

\* C21: a stats that ran wholly while one upsert of another process was
\* under way (begun after the upsert began, answered before the upsert's
\* final commit, nothing else committing meanwhile) answers with the store
\* as it was before the upsert: the upsert's intermediate states are not
\* observable.
X21_ReadersSeeUpsertAtomically ==
    \A reader \in Procs : \A writer \in Procs \ {reader} :
        ( /\ procs[reader].command = "stats"
          /\ procs[reader].pc = "done"
          /\ procs[reader].resp.status = "ok"
          /\ procs[reader].during
          /\ InsideUpsert(writer)
          /\ procs[writer].quiet )
        => procs[reader].resp = StatsOf(procs[writer].started)

\* C22: a search answered from the process's cache entry, with nothing
\* committed by another process while it ran, ranks the documents that are
\* committed: an entry materialized before another process's upsert changed
\* the store is never used.
X22_StaleEntryDetected ==
    \A q \in Procs :
        AnsweredQuietSearch(q) => procs[q].resp \in FreshAnswers(q)

\* C23: a search under a model other than the recorded one returns no
\* document whose stored vector was embedded under the recorded model.
X23_NoOldModelVectorsRanked ==
    \A q \in Procs :
        ( /\ AnsweredQuietSearch(q)
          /\ "model" \in DOMAIN meta
          /\ meta["model"] # procs[q].model )
        => \A k \in 1..Len(procs[q].resp.results) :
               \A i \in 1..Len(documents) :
                   documents[i].id = procs[q].resp.results[k].id
                   => ~EmbeddedUnderRecordedModel(documents[i])

\* C26: in every committed state of the store shared by two upserting
\* processes, every row was embedded under the recorded model.
X26_OneActiveModel ==
    documents # <<>> =>
        /\ "model" \in DOMAIN meta
        /\ \A i \in 1..Len(documents) : EmbeddedUnderRecordedModel(documents[i])

\* the largest updated_at of a table, 0 for an empty one: what a read of
\* the store's version observes
Version(table) ==
    IF table = <<>> THEN 0
    ELSE CHOOSE v \in {table[i].updated_at : i \in 1..Len(table)} :
             \A i \in 1..Len(table) : table[i].updated_at <= v

\* the rows a step committed
RowsWritten ==
    {documents'[i] : i \in 1..Len(documents')} \ {documents[i] : i \in 1..Len(documents)}

\* C33: with the clock never going back, no commit of any process lowers
\* the largest updated_at a read of the store observes, and the rows one
\* commit writes carry one updated_at.
X33_VersionNeverGoesBack ==
    [][ /\ Version(documents') >= Version(documents)
        /\ \A r1 \in RowsWritten, r2 \in RowsWritten : r1.updated_at = r2.updated_at
      ]_vars

\* C34: in every interleaving, a search that misses its cache stamps the
\* entry with the largest updated_at of the store as committed when it read
\* it, and fills the entry with the rows of the store as committed at its
\* later scan: the rows are never of a state older than the stamp's.  (The
\* newer state may be a table a model switch has just cleared, or hold a
\* row put back with a time read earlier; the stamp is then larger than
\* any updated_at among the rows.)
C34_StampNotNewerThanRows ==
    [][ \A q \in Procs :
          /\ (procs[q].pc = "max" /\ procs'[q].pc = "scan")
             => procs'[q].latest = Version(documents)
          /\ (procs[q].pc = "scan" /\ procs'[q].pc = "done")
             => LET cache_entry == procs'[q].cache[DbPath]
                IN /\ cache_entry.version = procs[q].latest
                   /\ Len(cache_entry.rows) = Len(documents)
                   /\ \A i \in 1..Len(documents) :
                          /\ cache_entry.rows[i][1] = documents[i].id
                          /\ cache_entry.matrix[i] = deserialize_vector(documents[i].vector)
      ]_vars

\* a search read the version of the empty store, another process committed
\* a row, and the search then built its entry: stamp 0, one row
W34_RowsNewerThanStamp ==
    \E q \in Procs :
        /\ procs[q].command = "search"
        /\ procs[q].pc = "done"
        /\ ~procs[q].quiet
        /\ DbPath \in DOMAIN procs[q].cache
        /\ procs[q].cache[DbPath].version = 0
        /\ Len(procs[q].cache[DbPath].rows) = 1

\* ------------------------------------------------ properties of SpecStores

\* the documents and the descriptor of the store at index_path
StoreAt(index_path) ==
    IF index_path = IndexPath THEN [documents |-> documents, meta |-> meta]
    ELSE [documents |-> other.documents, meta |-> other.meta]

\* the INDEX_CACHE entry of the store at index_path, if there is one
EntryAt(index_path) ==
    IF get_db_path_name(index_path) \in DOMAIN INDEX_CACHE
    THEN Some(INDEX_CACHE[get_db_path_name(index_path)]) ELSE None

\* C37: an upsert or a search on one store leaves the INDEX_CACHE entry of
\* every other store as it was (none added, replaced or removed), and
\* the other store's documents and descriptor too.
C37_EntriesIsolatedPerStore ==
    [][ (pc = "idle" /\ pc' = "printed")
        => \A index_path \in StorePaths \ {req'.payload.indexPath} :
               /\ EntryAt(index_path)' = EntryAt(index_path)
               /\ StoreAt(index_path)' = StoreAt(index_path)
      ]_vars

\* an upsert on the store at IndexPath wrote a row and evicted that store's
\* entry, while the store at OtherPath has documents and an entry
W37_EvictedNextToOtherEntry ==
    /\ Handled("upsert")
    /\ req.payload.indexPath = IndexPath
    /\ resp = Ok(1)
    /\ get_db_path_name(IndexPath) \in DOMAIN before.INDEX_CACHE
    /\ EntryAt(IndexPath) = None
    /\ EntryAt(OtherPath) # None
    /\ other.documents # <<>>

====
